---- MODULE Spec2Model ----
(***************************************************************************)
(* Model of the useWallet hook (src/unnamed/part_000): the wallet          *)
(* connection snapshot, the five asynchronous operations built on the      *)
(* wallet service, and the mount effect with its polling interval.         *)
(*                                                                         *)
(* One action is one run-to-completion segment of the JavaScript event     *)
(* loop: the code between two awaits of an operation, including every      *)
(* setState it performs.  An operation that awaits a wallet-service call    *)
(* sits at the pc named after that call until the call returns or throws.  *)
(* The step in which an operation's promise settles leaves a record of it   *)
(* in last, together with the snapshot from just before that step; the     *)
(* next step of anything clears the record.                                *)
(***************************************************************************)
EXTENDS Naturals, Sequences, FiniteSets, Bags, TLC

\* ---- bounds of the model ------------------------------------------------
\* operations that may be in flight at the same time
MaxTasks == 2
\* operations started over the life of the hook (mount refresh included)
MaxOps == 3

\* ---- values --------------------------------------------------------------
NULL == "null"

\* STELLAR_CONFIG.networkPassphrase and STELLAR_CONFIG.network
RequiredPassphrase == "required-net"
NetworkLabel == "testnet"

\* what the wallet can report
Addresses == {"G123"}
Networks == {RequiredPassphrase, "other-net"}

GatewayStates ==
    [installed : BOOLEAN, connected : BOOLEAN, address : Addresses, network : Networks]

\* values a wallet-service call can throw: an Error with a message, or a
\* value that is no Error
Thrown == {[isError |-> TRUE, message |-> "gateway error"],
           [isError |-> FALSE, message |-> NULL]}

\* what signTransaction() can resolve with
Signed == {"signed-xdr"}

\* results connectWallet() can resolve with
ConnectResults ==
    [success : BOOLEAN, address : Addresses \cup {NULL, ""}, error : {NULL, "", "User rejected"}]

VARIABLES
    state,      \* the WalletState held by useState
    gateway,    \* the wallet extension's own state, behind walletService
    tasks,      \* the operations in flight: a bag of task records
    timer,      \* the mount effect: "unset", "active" (interval set), "cleared"
    ops,        \* operations started so far
    last        \* the operation whose promise settled in the step just taken

vars == <<state, gateway, tasks, timer, ops, last>>

\* ---- the snapshot ---------------------------------------------------------
InitialState ==
    [address |-> NULL,
     isConnected |-> FALSE,
     isConnecting |-> FALSE,
     isDisconnecting |-> FALSE,
     error |-> NULL,
     isWalletAvailable |-> FALSE,
     network |-> NULL,
     isWrongNetwork |-> FALSE]

\* error instanceof Error ? error.message : fallback
ErrorMessage(thrown, fallback) ==
    IF thrown.isError THEN thrown.message ELSE fallback

\* a || b on optional strings: undefined and "" are falsy
OrElse(value, fallback) ==
    IF value = NULL \/ value = "" THEN fallback ELSE value

\* result.success && result.address
ConnectSucceeded(result) ==
    result.success /\ result.address # NULL /\ result.address # ""

\* the derivation without its connected and non-null guards
IsWrongNetworkUnguarded(connected, network) ==
    network # RequiredPassphrase

\* connected && network !== null && network !== STELLAR_CONFIG.networkPassphrase
IsWrongNetwork(connected, network) ==
    connected /\ network # NULL /\ network # RequiredPassphrase

\* a refresh that takes the wallet to be connected whatever it reports
RefreshSuccessUpdateAssumingConnected(prev, available, connected, address, network) ==
    [prev EXCEPT !.isWalletAvailable = available,
                 !.isConnected = TRUE,
                 !.address = address,
                 !.network = network,
                 !.isWrongNetwork = IsWrongNetwork(TRUE, network),
                 !.error = NULL]

\* a refresh that leaves isWalletAvailable as it finds it
RefreshSuccessUpdateKeepingAvailability(prev, available, connected, address, network) ==
    [prev EXCEPT !.isConnected = connected,
                 !.address = address,
                 !.network = network,
                 !.isWrongNetwork = IsWrongNetwork(connected, network),
                 !.error = NULL]

\* a refresh that leaves a recorded error in place
RefreshSuccessUpdateKeepingError(prev, available, connected, address, network) ==
    [prev EXCEPT !.isWalletAvailable = available,
                 !.isConnected = connected,
                 !.address = address,
                 !.network = network,
                 !.isWrongNetwork = IsWrongNetwork(connected, network)]

\* the updater of refresh's try block
RefreshSuccessUpdate(prev, available, connected, address, network) ==
    [prev EXCEPT !.isWalletAvailable = available,
                 !.isConnected = connected,
                 !.address = address,
                 !.network = network,
                 !.isWrongNetwork = IsWrongNetwork(connected, network),
                 !.error = NULL]

\* a catch block that also drops the connection
RefreshFailUpdateResetting(prev, thrown) ==
    [prev EXCEPT !.error = ErrorMessage(thrown, "Unknown error"),
                 !.isConnected = FALSE,
                 !.address = NULL,
                 !.network = NULL,
                 !.isWrongNetwork = FALSE]

\* the updater of refresh's catch block
RefreshFailUpdate(prev, thrown) ==
    [prev EXCEPT !.error = ErrorMessage(thrown, "Unknown error")]

\* a start of connect that shows the wallet as connected straight away
ConnectStartUpdateOptimistic(prev) ==
    [prev EXCEPT !.isConnecting = TRUE, !.isConnected = TRUE, !.error = NULL]

\* a start of connect that leaves the old error on display
ConnectStartUpdateKeepingError(prev) ==
    [prev EXCEPT !.isConnecting = TRUE]

ConnectStartUpdate(prev) ==
    [prev EXCEPT !.isConnecting = TRUE, !.error = NULL]

\* an else branch that takes a failed connect to mean the wallet is gone
ConnectFailUpdateResetting(prev, result) ==
    [prev EXCEPT !.isConnecting = FALSE,
                 !.isConnected = FALSE,
                 !.address = NULL,
                 !.network = NULL,
                 !.isWrongNetwork = FALSE,
                 !.error = OrElse(result.error, "Failed to connect wallet")]

\* the else branch: reported failure, or success without an address
ConnectFailUpdate(prev, result) ==
    [prev EXCEPT !.isConnecting = FALSE,
                 !.error = OrElse(result.error, "Failed to connect wallet")]

ConnectThrowUpdate(prev, thrown) ==
    [prev EXCEPT !.isConnecting = FALSE,
                 !.error = ErrorMessage(thrown, "Failed to connect wallet")]

DisconnectStartUpdate(prev) ==
    [prev EXCEPT !.isDisconnecting = TRUE, !.error = NULL]

\* a reset that also forgets the wallet is installed
DisconnectSuccessUpdateForgetful(prev) ==
    [InitialState EXCEPT !.isWalletAvailable = FALSE]

\* a reset written as a spread of prev that leaves the address in place
DisconnectSuccessUpdateKeepingAddress(prev) ==
    [prev EXCEPT !.isConnected = FALSE,
                 !.isConnecting = FALSE,
                 !.isDisconnecting = FALSE,
                 !.error = NULL,
                 !.network = NULL,
                 !.isWrongNetwork = FALSE]

DisconnectSuccessUpdate(prev) ==
    [address |-> NULL,
     isConnected |-> FALSE,
     isConnecting |-> FALSE,
     isDisconnecting |-> FALSE,
     error |-> NULL,
     isWalletAvailable |-> prev.isWalletAvailable,
     network |-> NULL,
     isWrongNetwork |-> FALSE]

\* a catch block that leaves the pending flag up
DisconnectThrowUpdateStuck(prev, thrown) ==
    [prev EXCEPT !.error = ErrorMessage(thrown, "Failed to disconnect wallet")]

\* a catch block that takes a failed disconnect to have disconnected anyway
DisconnectThrowUpdateResetting(prev, thrown) ==
    [prev EXCEPT !.isDisconnecting = FALSE,
                 !.isConnected = FALSE,
                 !.address = NULL,
                 !.network = NULL,
                 !.isWrongNetwork = FALSE,
                 !.error = ErrorMessage(thrown, "Failed to disconnect wallet")]

\* a catch block that records no message
DisconnectThrowUpdateSilent(prev, thrown) ==
    [prev EXCEPT !.isDisconnecting = FALSE]

DisconnectThrowUpdate(prev, thrown) ==
    [prev EXCEPT !.isDisconnecting = FALSE,
                 !.error = ErrorMessage(thrown, "Failed to disconnect wallet")]

\* a catch block that takes the wallet to be on the required network anyway
SwitchThrowUpdateAssumingSwitched(prev, thrown) ==
    [prev EXCEPT !.error = ErrorMessage(thrown, "Failed to switch network"),
                 !.network = IF prev.isConnected THEN RequiredPassphrase ELSE prev.network,
                 !.isWrongNetwork = FALSE]

SwitchThrowUpdate(prev, thrown) ==
    [prev EXCEPT !.error = ErrorMessage(thrown, "Failed to switch network")]

\* a catch block that rethrows without recording
SignThrowUpdateSilent(prev, thrown) ==
    prev

SignThrowUpdate(prev, thrown) ==
    [prev EXCEPT !.error = ErrorMessage(thrown, "Failed to sign transaction")]

\* ---- operations in flight -------------------------------------------------
\* kind      the operation: refresh, connect, disconnect, switchNetwork, signTx
\* pc        the wallet-service call the operation awaits
\* available, connected, address
\*           refresh's locals read so far
\* calls     the wallet-service calls the operation has made, in order
\* preAvail  isWalletAvailable when disconnect was called
\* preDisc   the operation asked the wallet isConnected before a disconnect
\*           that has since succeeded
NewTask ==
    [kind |-> "none", pc |-> "none",
     available |-> FALSE, connected |-> FALSE, address |-> NULL,
     calls |-> <<>>, preAvail |-> FALSE, preDisc |-> FALSE]

RefreshPcs == {"isWalletInstalled", "isWalletConnected", "getAccountAddress", "getNetwork"}

InFlight == BagToSet(tasks)

\* the bag of operations in flight with one more, one less, one moved on
With(task) == tasks (+) SetToBag({task})
Without(task) == tasks (-) SetToBag({task})
Moved(task, next) == Without(task) (+) SetToBag({next})

CanStart ==
    /\ ops < MaxOps
    /\ BagCardinality(tasks) < MaxTasks

\* the task record of an operation of this kind at its first await
Started(kind, call) ==
    [NewTask EXCEPT !.kind = kind, !.pc = call, !.calls = <<call>>]

\* what a promise rejects with: Error("Wallet not connected"),
\* Error(`Wrong network. Please switch to ${label}`), or what the wallet threw
NotThrown == [isError |-> FALSE, message |-> "nothing thrown"]
NoRejection == [condition |-> "none", label |-> NULL, thrown |-> NotThrown]
NotConnected == [condition |-> "NotConnected", label |-> NULL, thrown |-> NotThrown]
WrongNetwork(label) == [condition |-> "WrongNetwork", label |-> label, thrown |-> NotThrown]
Rethrown(thrown) == [condition |-> "Thrown", label |-> NULL, thrown |-> thrown]

\* what a refresh read from the wallet before its setState
NoRead ==
    [available |-> FALSE, connected |-> FALSE, address |-> NULL, network |-> NULL]

Read(available, connected, address, network) ==
    [available |-> available, connected |-> connected, address |-> address, network |-> network]

\* the record last holds of the step just taken, when that step called an
\* operation or settled one
\* kind       the operation
\* called     the operation was called in this step
\* by         what called it: the mount "effect", the "interval" or a "caller"
\*            holding the hook's return value
\* outcome    its promise: "pending", "resolved" or "rejected"
\* rejection  the value the promise rejected with
\* failedCall the wallet-service call of the operation that threw or reported
\*            failure
\* calls      the wallet-service calls the operation has made, in order
\* read       what the wallet reported to the refresh part, when its try block
\*            ran to the end
\* result     the value the promise of signTx resolved with
\* before     the snapshot just before the step
NoEvent ==
    [kind |-> "none", called |-> FALSE, by |-> "none", outcome |-> "none",
     rejection |-> NoRejection,
     failedCall |-> NULL, calls |-> <<>>, read |-> NoRead,
     preAvail |-> FALSE, preDisc |-> FALSE, result |-> NULL,
     before |-> InitialState]

\* the operation was called and awaits its first wallet-service call
Called(task, by) ==
    [NoEvent EXCEPT !.kind = task.kind, !.called = TRUE, !.by = by, !.outcome = "pending",
                    !.calls = task.calls, !.before = state]

\* the operation's promise settles
Settled(task, outcome, rejection, failedCall, read) ==
    [NoEvent EXCEPT !.kind = task.kind, !.outcome = outcome, !.rejection = rejection,
                    !.failedCall = failedCall, !.calls = task.calls, !.read = read,
                    !.preAvail = task.preAvail, !.preDisc = task.preDisc,
                    !.before = state]

Init ==
    /\ state = InitialState
    /\ gateway \in GatewayStates
    /\ tasks = EmptyBag
    /\ timer = "unset"
    /\ ops = 0
    /\ last = NoEvent

\* ---- the mount effect ------------------------------------------------------
\* useEffect: refresh(); setInterval(refresh, 10000)
Mount ==
    /\ timer = "unset"
    /\ CanStart
    /\ timer' = "active"
    /\ tasks' = With(Started("refresh", "isWalletInstalled"))
    /\ ops' = ops + 1
    /\ last' = Called(Started("refresh", "isWalletInstalled"), "effect")
    /\ UNCHANGED <<state, gateway>>

\* an interval that the effect's cleanup does not clear
TickAfterTeardown ==
    /\ timer \in {"active", "cleared"}
    /\ CanStart
    /\ tasks' = With(Started("refresh", "isWalletInstalled"))
    /\ ops' = ops + 1
    /\ last' = Called(Started("refresh", "isWalletInstalled"), "interval")
    /\ UNCHANGED <<state, gateway, timer>>

\* the interval fires
Tick ==
    /\ timer = "active"
    /\ CanStart
    /\ tasks' = With(Started("refresh", "isWalletInstalled"))
    /\ ops' = ops + 1
    /\ last' = Called(Started("refresh", "isWalletInstalled"), "interval")
    /\ UNCHANGED <<state, gateway, timer>>

\* the effect's cleanup: clearInterval
Unmount ==
    /\ timer = "active"
    /\ timer' = "cleared"
    /\ last' = NoEvent
    /\ UNCHANGED <<state, gateway, tasks, ops>>

\* ---- refresh ---------------------------------------------------------------
\* the hook's user calls the returned refresh
CallRefresh ==
    /\ timer = "active"
    /\ CanStart
    /\ tasks' = With(Started("refresh", "isWalletInstalled"))
    /\ ops' = ops + 1
    /\ last' = Called(Started("refresh", "isWalletInstalled"), "caller")
    /\ UNCHANGED <<state, gateway, timer>>

IsWalletInstalledReturns(task) ==
    /\ task.pc = "isWalletInstalled"
    /\ tasks' = Moved(task, [task EXCEPT !.available = gateway.installed,
                                         !.pc = "isWalletConnected",
                                         !.calls = Append(@, "isWalletConnected")])
    /\ last' = NoEvent
    /\ UNCHANGED <<state, gateway, timer, ops>>

\* connected: go on to ask the address; not connected: address and network are
\* null without a call, the try block's setState runs and refresh resolves,
\* and with it the connect or switchNetwork that awaits it
IsWalletConnectedReturns(task) ==
    /\ task.pc = "isWalletConnected"
    /\ IF gateway.connected
       THEN /\ tasks' = Moved(task, [task EXCEPT !.connected = TRUE,
                                                 !.pc = "getAccountAddress",
                                                 !.calls = Append(@, "getAccountAddress")])
            /\ last' = NoEvent
            /\ UNCHANGED state
       ELSE /\ state' = RefreshSuccessUpdate(state, task.available, FALSE, NULL, NULL)
            /\ tasks' = Without(task)
            /\ last' = Settled(task, "resolved", NoRejection, NULL,
                               Read(task.available, FALSE, NULL, NULL))
    /\ UNCHANGED <<gateway, timer, ops>>

GetAccountAddressReturns(task) ==
    /\ task.pc = "getAccountAddress"
    /\ tasks' = Moved(task, [task EXCEPT !.address = gateway.address,
                                         !.pc = "getNetwork",
                                         !.calls = Append(@, "getNetwork")])
    /\ last' = NoEvent
    /\ UNCHANGED <<state, gateway, timer, ops>>

GetNetworkReturns(task) ==
    /\ task.pc = "getNetwork"
    /\ state' = RefreshSuccessUpdate(state, task.available, task.connected,
                                     task.address, gateway.network)
    /\ tasks' = Without(task)
    /\ last' = Settled(task, "resolved", NoRejection, NULL,
                       Read(task.available, task.connected,
                            task.address, gateway.network))
    /\ UNCHANGED <<gateway, timer, ops>>

\* any of refresh's four calls throws: the catch block's setState runs and
\* refresh resolves, and with it the connect or switchNetwork that awaits it
RefreshThrows(task) ==
    /\ task.pc \in RefreshPcs
    /\ \E thrown \in Thrown :
          state' = RefreshFailUpdate(state, thrown)
    /\ tasks' = Without(task)
    /\ last' = Settled(task, "resolved", NoRejection, task.pc, NoRead)
    /\ UNCHANGED <<gateway, timer, ops>>

\* ---- connect ---------------------------------------------------------------
CallConnect ==
    /\ timer = "active"
    /\ CanStart
    /\ state' = ConnectStartUpdate(state)
    /\ tasks' = With(Started("connect", "connectWallet"))
    /\ ops' = ops + 1
    /\ last' = Called(Started("connect", "connectWallet"), "caller")
    /\ UNCHANGED <<gateway, timer>>

\* connectWallet() resolves; a success with an address leaves the wallet
\* connected to that address, and refresh() is called
ConnectWalletReturns(task) ==
    /\ task.pc = "connectWallet"
    /\ \E result \in ConnectResults :
          IF ConnectSucceeded(result)
          THEN /\ gateway' = [gateway EXCEPT !.connected = TRUE, !.address = result.address]
               /\ tasks' = Moved(task, [task EXCEPT !.pc = "isWalletInstalled",
                                                    !.calls = Append(@, "isWalletInstalled")])
               /\ last' = NoEvent
               /\ UNCHANGED state
          ELSE /\ state' = ConnectFailUpdate(state, result)
               /\ tasks' = Without(task)
               /\ last' = Settled(task, "resolved", NoRejection, task.pc, NoRead)
               /\ UNCHANGED gateway
    /\ UNCHANGED <<timer, ops>>

ConnectWalletThrows(task) ==
    /\ task.pc = "connectWallet"
    /\ \E thrown \in Thrown :
          state' = ConnectThrowUpdate(state, thrown)
    /\ tasks' = Without(task)
    /\ last' = Settled(task, "resolved", NoRejection, task.pc, NoRead)
    /\ UNCHANGED <<gateway, timer, ops>>

\* ---- disconnect ------------------------------------------------------------
\* a disconnect at its first await, with isWalletAvailable as it was at the call
StartedDisconnect ==
    [Started("disconnect", "disconnectWallet") EXCEPT !.preAvail = state.isWalletAvailable]

CallDisconnect ==
    /\ timer = "active"
    /\ CanStart
    /\ state' = DisconnectStartUpdate(state)
    /\ tasks' = With(StartedDisconnect)
    /\ ops' = ops + 1
    /\ last' = Called(StartedDisconnect, "caller")
    /\ UNCHANGED <<gateway, timer>>

\* an operation that has asked the wallet isConnected holds, once a disconnect
\* succeeds, an answer from before that disconnect
Mark(task) ==
    IF task.pc \in {"isWalletConnected", "getAccountAddress", "getNetwork"}
    THEN [task EXCEPT !.preDisc = TRUE]
    ELSE task

Overtaken(bag) ==
    [m \in {Mark(r) : r \in BagToSet(bag)} |->
        BagCardinality([r \in {q \in BagToSet(bag) : Mark(q) = m} |-> bag[r]])]

\* disconnectWallet() resolves: the wallet is no longer connected and the
\* snapshot is reset.  Every operation that has already asked the wallet
\* isConnected now holds an answer from before this disconnect.
DisconnectWalletReturns(task) ==
    /\ task.pc = "disconnectWallet"
    /\ gateway' = [gateway EXCEPT !.connected = FALSE]
    /\ state' = DisconnectSuccessUpdate(state)
    /\ tasks' = Overtaken(Without(task))
    /\ last' = Settled(task, "resolved", NoRejection, NULL, NoRead)
    /\ UNCHANGED <<timer, ops>>

DisconnectWalletThrows(task) ==
    /\ task.pc = "disconnectWallet"
    /\ \E thrown \in Thrown :
          state' = DisconnectThrowUpdate(state, thrown)
    /\ tasks' = Without(task)
    /\ last' = Settled(task, "resolved", NoRejection, task.pc, NoRead)
    /\ UNCHANGED <<gateway, timer, ops>>

\* ---- switchNetwork ---------------------------------------------------------
CallSwitchNetwork ==
    /\ timer = "active"
    /\ CanStart
    /\ tasks' = With(Started("switchNetwork", "setNetwork"))
    /\ ops' = ops + 1
    /\ last' = Called(Started("switchNetwork", "setNetwork"), "caller")
    /\ UNCHANGED <<state, gateway, timer>>

\* setNetwork(STELLAR_CONFIG.networkPassphrase) resolves, then refresh() is called
SetNetworkReturns(task) ==
    /\ task.pc = "setNetwork"
    /\ gateway' = [gateway EXCEPT !.network = RequiredPassphrase]
    /\ tasks' = Moved(task, [task EXCEPT !.pc = "isWalletInstalled",
                                         !.calls = Append(@, "isWalletInstalled")])
    /\ last' = NoEvent
    /\ UNCHANGED <<state, timer, ops>>

SetNetworkThrows(task) ==
    /\ task.pc = "setNetwork"
    /\ \E thrown \in Thrown :
          state' = SwitchThrowUpdate(state, thrown)
    /\ tasks' = Without(task)
    /\ last' = Settled(task, "resolved", NoRejection, task.pc, NoRead)
    /\ UNCHANGED <<gateway, timer, ops>>

\* ---- signTx ----------------------------------------------------------------
\* signTx without its network guard
SignGuardConnectedOnly(snapshot) ==
    IF ~snapshot.isConnected THEN NotConnected ELSE NoRejection

\* the two guards of signTx, on the snapshot the callback was rendered with:
\* the value signTx throws, or NoRejection when both guards pass
SignGuard(snapshot) ==
    IF ~snapshot.isConnected THEN NotConnected
    ELSE IF snapshot.isWrongNetwork THEN WrongNetwork(NetworkLabel)
    ELSE NoRejection

\* signTx(transaction) is called: it throws on a failed guard without calling
\* the wallet, otherwise it awaits signTransaction
CallSignTx ==
    /\ timer = "active"
    /\ CanStart
    /\ IF SignGuard(state) # NoRejection
       THEN /\ last' = [Settled([NewTask EXCEPT !.kind = "signTx"],
                                 "rejected", SignGuard(state), NULL, NoRead)
                            EXCEPT !.called = TRUE, !.by = "caller"]
            /\ UNCHANGED tasks
       ELSE /\ tasks' = With(Started("signTx", "signTransaction"))
            /\ last' = Called(Started("signTx", "signTransaction"), "caller")
    /\ ops' = ops + 1
    /\ UNCHANGED <<state, gateway, timer>>

\* a success path that clears the error, as the other operations do
SignSuccessUpdateClearingError(prev) ==
    [prev EXCEPT !.error = NULL]

\* return await signTransaction(transaction): no setState on this path
SignSuccessUpdate(prev) ==
    prev

\* signTransaction resolves and signTx returns its result
SignTransactionReturns(task) ==
    /\ task.pc = "signTransaction"
    /\ \E signed \in Signed :
          last' = [Settled(task, "resolved", NoRejection, NULL, NoRead)
                      EXCEPT !.result = signed]
    /\ state' = SignSuccessUpdate(state)
    /\ tasks' = Without(task)
    /\ UNCHANGED <<gateway, timer, ops>>

\* signTransaction throws: the catch block records the error and rethrows
SignTransactionThrows(task) ==
    /\ task.pc = "signTransaction"
    /\ \E thrown \in Thrown :
          /\ state' = SignThrowUpdate(state, thrown)
          /\ last' = Settled(task, "rejected", Rethrown(thrown), task.pc, NoRead)
    /\ tasks' = Without(task)
    /\ UNCHANGED <<gateway, timer, ops>>

\* ---- the wallet itself -----------------------------------------------------
\* the user changes account, network or connection inside the extension
WalletChanges ==
    /\ gateway' \in GatewayStates \ {gateway}
    /\ gateway'.installed = gateway.installed
    /\ last' = NoEvent
    /\ UNCHANGED <<state, tasks, timer, ops>>

Next ==
    \/ Mount
    \/ Unmount
    \/ WalletChanges
    \/ Tick
    \/ CallRefresh
    \/ CallConnect
    \/ CallDisconnect
    \/ CallSwitchNetwork
    \/ CallSignTx
    \/ \E task \in InFlight : IsWalletInstalledReturns(task)
    \/ \E task \in InFlight : IsWalletConnectedReturns(task)
    \/ \E task \in InFlight : GetAccountAddressReturns(task)
    \/ \E task \in InFlight : GetNetworkReturns(task)
    \/ \E task \in InFlight : RefreshThrows(task)
    \/ \E task \in InFlight : ConnectWalletReturns(task)
    \/ \E task \in InFlight : ConnectWalletThrows(task)
    \/ \E task \in InFlight : DisconnectWalletReturns(task)
    \/ \E task \in InFlight : DisconnectWalletThrows(task)
    \/ \E task \in InFlight : SetNetworkReturns(task)
    \/ \E task \in InFlight : SetNetworkThrows(task)
    \/ \E task \in InFlight : SignTransactionReturns(task)
    \/ \E task \in InFlight : SignTransactionThrows(task)

Spec == Init /\ [][Next]_vars

\* ---- reconciliation without a bound on the ticks ------------------------------
\* the interval fires, as in Tick, however many operations have been started
Poll ==
    /\ timer = "active"
    /\ BagCardinality(tasks) < MaxTasks
    /\ tasks' = With(Started("refresh", "isWalletInstalled"))
    /\ last' = Called(Started("refresh", "isWalletInstalled"), "interval")
    /\ UNCHANGED <<state, gateway, timer, ops>>

\* a wallet-service call that is awaited returns
SomeCallReturns ==
    \/ \E task \in InFlight : IsWalletInstalledReturns(task)
    \/ \E task \in InFlight : IsWalletConnectedReturns(task)
    \/ \E task \in InFlight : GetAccountAddressReturns(task)
    \/ \E task \in InFlight : GetNetworkReturns(task)
    \/ \E task \in InFlight : ConnectWalletReturns(task)
    \/ \E task \in InFlight : DisconnectWalletReturns(task)
    \/ \E task \in InFlight : SetNetworkReturns(task)
    \/ \E task \in InFlight : SignTransactionReturns(task)

NextReconcile ==
    \/ Mount
    \/ Poll
    \/ WalletChanges
    \/ CallConnect
    \/ CallDisconnect
    \/ CallSwitchNetwork
    \/ CallSignTx
    \/ SomeCallReturns
    \/ \E task \in InFlight : RefreshThrows(task)
    \/ \E task \in InFlight : ConnectWalletThrows(task)
    \/ \E task \in InFlight : DisconnectWalletThrows(task)
    \/ \E task \in InFlight : SetNetworkThrows(task)
    \/ \E task \in InFlight : SignTransactionThrows(task)

\* the effect runs after the first render, the interval keeps firing while it
\* is set, and a wallet-service call that can return does
SpecReconcile ==
    /\ Init
    /\ [][NextReconcile]_vars
    /\ WF_vars(Mount)
    /\ WF_vars(Poll)
    /\ WF_vars(SomeCallReturns)

\* ---- properties ------------------------------------------------------------
Mutating == {"refresh", "connect", "disconnect", "switchNetwork"}

\* last is the settling of an operation of this kind
SettledAs(kind) ==
    /\ last.kind = kind
    /\ last.outcome \in {"resolved", "rejected"}

\* C1: in every reachable snapshot isWrongNetwork is true exactly when
\* isConnected is true, network is non-null and network differs from the
\* required network passphrase.
C1_WrongNetworkIsDerived ==
    state.isWrongNetwork <=>
        (state.isConnected /\ state.network # NULL /\ state.network # RequiredPassphrase)

\* a refresh has just found the wallet connected on another network
C1_Witness ==
    /\ SettledAs("refresh")
    /\ last.read.connected
    /\ last.read.network = "other-net"
    /\ state.isWrongNetwork

\* C2 (as claimed): when a connect() settles, on any path, the snapshot has
\* isConnecting = false.
C2_ConnectEndsNotConnecting ==
    SettledAs("connect") => ~state.isConnecting

\* C3 (as claimed): right after a disconnect() whose disconnectWallet call
\* succeeded the snapshot is the reset one, with isWalletAvailable as it was
\* when disconnect() was called.
C3_ResetKeepsAvailabilityOfCall ==
    (SettledAs("disconnect") /\ last.failedCall = NULL) =>
        state = [InitialState EXCEPT !.isWalletAvailable = last.preAvail]

\* C3 (amended): right after a disconnect() whose disconnectWallet call
\* succeeded the snapshot has isConnected = false, address = null,
\* network = null, isWrongNetwork = false, isConnecting = false,
\* isDisconnecting = false and error = null, and isWalletAvailable is what
\* the snapshot held just before the reset.
C3_ResetKeepsAvailabilityOfPrev ==
    (SettledAs("disconnect") /\ last.failedCall = NULL) =>
        state = [InitialState EXCEPT !.isWalletAvailable = last.before.isWalletAvailable]

\* a disconnect has just reset a connected snapshot of an installed wallet
C3_Witness ==
    /\ SettledAs("disconnect")
    /\ last.failedCall = NULL
    /\ last.before.isConnected
    /\ last.before.address # NULL
    /\ last.before.isWalletAvailable
    /\ state.isWalletAvailable
    /\ ~state.isConnected

\* C4: when one of refresh's wallet queries throws, the update of that
\* refresh changes error and nothing else, whatever the refresh had already
\* read; this holds for refresh run alone and as a step of connect or
\* switchNetwork.
C4_RefreshFailureChangesOnlyError ==
    (last.kind \in Mutating /\ last.failedCall \in RefreshPcs) =>
        /\ state = [last.before EXCEPT !.error = state.error]
        /\ state.error \in {"gateway error", "Unknown error"}

\* a refresh saw the wallet connected, then getNetwork threw, and the snapshot
\* is still the disconnected one
C4_Witness ==
    /\ SettledAs("refresh")
    /\ last.failedCall = "getNetwork"
    /\ ~state.isConnected
    /\ state.address = NULL
    /\ state.error = "gateway error"

C6_FailedConnectChangesOnlyFlags ==
    /\ (last.kind = "connect" /\ last.called) =>
          state = [last.before EXCEPT !.isConnecting = TRUE, !.error = NULL]
    /\ (last.kind = "connect" /\ last.failedCall = "connectWallet") =>
          /\ last.outcome = "resolved"
          /\ last.calls = <<"connectWallet">>
          /\ state = [last.before EXCEPT !.isConnecting = FALSE, !.error = state.error]
          /\ state.error \in {"User rejected", "gateway error", "Failed to connect wallet"}

\* a connect called on a connected snapshot has just failed with the wallet's
\* reason and the snapshot is still connected
C6_Witness ==
    /\ last.kind = "connect"
    /\ last.failedCall = "connectWallet"
    /\ state.isConnected
    /\ state.address # NULL
    /\ ~state.isConnecting
    /\ state.error = "User rejected"

\* C7: right after a connect() whose connectWallet succeeded with an address
\* and whose refresh ran to the end, isConnected, address, network and
\* isWrongNetwork are what the wallet reported to that refresh (disconnected
\* with address and network null when it reported not connected) and error is
\* null; when it reported connected on the required network the snapshot is
\* connected to the reported address with isWrongNetwork = false.
C7_ConnectShowsWhatWalletReports ==
    (SettledAs("connect") /\ last.failedCall = NULL) =>
        /\ state.isConnected = last.read.connected
        /\ state.address = (IF last.read.connected THEN last.read.address ELSE NULL)
        /\ state.network = (IF last.read.connected THEN last.read.network ELSE NULL)
        /\ state.isWrongNetwork =
              (last.read.connected /\ last.read.network # RequiredPassphrase)
        /\ state.error = NULL
        /\ (last.read.connected /\ last.read.network = RequiredPassphrase) =>
              /\ state.isConnected
              /\ state.address \in Addresses
              /\ state.network = RequiredPassphrase
              /\ ~state.isWrongNetwork

\* a connect has just ended with the wallet connected to G123 on the required
\* network
C7_Witness ==
    /\ SettledAs("connect")
    /\ last.failedCall = NULL
    /\ last.calls = <<"connectWallet", "isWalletInstalled", "isWalletConnected",
                      "getAccountAddress", "getNetwork">>
    /\ state.isConnected
    /\ state.address = "G123"
    /\ state.network = RequiredPassphrase
    /\ ~state.isWrongNetwork
    /\ state.error = NULL

\* C8 (as claimed): in every reachable snapshot at most one of isConnecting
\* and isDisconnecting is true.
C8_AtMostOneTransientFlag ==
    ~(state.isConnecting /\ state.isDisconnecting)

\* C9: in every reachable snapshot isConnected = false implies address = null
\* and network = null, so an update that leaves isConnected false leaves both
\* null with it.
C9_AddressAndNetworkOnlyWhileConnected ==
    ~state.isConnected => (state.address = NULL /\ state.network = NULL)

\* an update has just taken a connected snapshot with an address and a network
\* to a disconnected one
C9_Witness ==
    /\ last.kind \in {"refresh", "disconnect"}
    /\ last.before.isConnected
    /\ last.before.address # NULL
    /\ last.before.network # NULL
    /\ ~state.isConnected

\* C10: when a wallet call of refresh, connect, disconnect or switchNetwork
\* throws or reports failure, the refresh steps of connect and switchNetwork
\* included, the operation's promise resolves and the snapshot's error is
\* non-null; none of the four ever rejects.
C10_FailuresAreSwallowedIntoError ==
    /\ (last.kind \in Mutating /\ last.outcome # "pending") => last.outcome = "resolved"
    /\ (last.kind \in Mutating /\ last.failedCall # NULL) =>
          /\ last.outcome = "resolved"
          /\ last.rejection = NoRejection
          /\ state.error # NULL

\* a switchNetwork whose refresh step threw has just resolved with the error
\* recorded
C10_Witness ==
    /\ SettledAs("switchNetwork")
    /\ last.failedCall \in RefreshPcs
    /\ last.outcome = "resolved"
    /\ state.error = "gateway error"

\* C11: when signTx has passed its guards and signTransaction throws, the
\* update made writes error (the thrown message or the fallback) and nothing
\* else, and the promise rejects with the very value that was thrown; it never
\* resolves.
C11_SignFailureIsRecordedAndRethrown ==
    (last.kind = "signTx" /\ last.failedCall = "signTransaction") =>
        /\ last.outcome = "rejected"
        /\ last.rejection.condition = "Thrown"
        /\ last.rejection.thrown \in Thrown
        /\ state = [last.before EXCEPT
                      !.error = ErrorMessage(last.rejection.thrown, "Failed to sign transaction")]
        /\ state.error # NULL

\* signTx has just rejected with the wallet's error on a connected snapshot
\* that held no error
C11_Witness ==
    /\ last.kind = "signTx"
    /\ last.failedCall = "signTransaction"
    /\ last.outcome = "rejected"
    /\ last.before.error = NULL
    /\ state.error = "gateway error"
    /\ state.isConnected

\* the operation called in the step just taken is the only one in flight
CalledAlone ==
    /\ last.called
    /\ BagCardinality(tasks) = (IF last.outcome = "pending" THEN 1 ELSE 0)

\* C12 (as claimed): whichever operation is called while error holds the
\* message of an earlier operation and nothing else is in flight, error is
\* null from that operation's first step.
C12_EveryOperationResetsErrorAtStart ==
    (CalledAlone /\ last.before.error # NULL) => state.error = NULL

\* C12 (amended): connect and disconnect reset error in their first step,
\* whatever their outcome; refresh, switchNetwork and signTx leave the
\* snapshot, error included, as it was when they were called; a refresh or
\* switchNetwork clears error when its refresh runs to the end, and no step
\* of signTx clears a non-null error.
C12_OnlyConnectAndDisconnectResetErrorAtStart ==
    /\ (last.called /\ last.kind \in {"connect", "disconnect"}) => state.error = NULL
    /\ (last.called /\ last.kind \in {"refresh", "switchNetwork", "signTx"}) =>
          state = last.before
    /\ (last.kind \in {"refresh", "switchNetwork"} /\ last.outcome = "resolved"
          /\ last.failedCall = NULL) => state.error = NULL
    /\ (last.kind = "signTx" /\ last.before.error # NULL) => state.error # NULL

\* connect has just been called on a snapshot showing an earlier error, alone,
\* and the error is gone while connectWallet is pending
C12_Witness ==
    /\ CalledAlone
    /\ last.kind = "connect"
    /\ last.outcome = "pending"
    /\ last.before.error # NULL
    /\ state.error = NULL

\* C13: the update disconnect() makes when it is called writes
\* isDisconnecting = true and error = null only, and when disconnectWallet
\* throws its update writes isDisconnecting = false and error (the thrown
\* message or the fallback) only: address, isConnected, network,
\* isWrongNetwork, isWalletAvailable and isConnecting are as they were.
C13_FailedDisconnectChangesOnlyFlags ==
    /\ (last.kind = "disconnect" /\ last.called) =>
          state = [last.before EXCEPT !.isDisconnecting = TRUE, !.error = NULL]
    /\ (last.kind = "disconnect" /\ last.failedCall = "disconnectWallet") =>
          /\ state = [last.before EXCEPT !.isDisconnecting = FALSE, !.error = state.error]
          /\ state.error \in {"gateway error", "Failed to disconnect wallet"}

\* a disconnect has just failed on a connected snapshot, which is still
\* connected
C13_Witness ==
    /\ last.kind = "disconnect"
    /\ last.failedCall = "disconnectWallet"
    /\ state.isConnected
    /\ state.address # NULL
    /\ state.network # NULL
    /\ ~state.isDisconnecting
    /\ state.error = "Failed to disconnect wallet"

\* C14: switchNetwork() makes no update when it is called and calls setNetwork
\* first; when setNetwork throws, its update writes error only and no refresh
\* call has been made; when setNetwork succeeds the snapshot is written by the
\* refresh that follows, so network and isWrongNetwork are what the wallet
\* reported to that refresh, and isWrongNetwork is true when the wallet then
\* still reports another network.
C14_SwitchNetworkWritesThroughRefresh ==
    /\ (last.kind = "switchNetwork" /\ last.called) =>
          /\ state = last.before
          /\ last.calls = <<"setNetwork">>
    /\ (last.kind = "switchNetwork" /\ last.failedCall = "setNetwork") =>
          /\ last.calls = <<"setNetwork">>
          /\ state = [last.before EXCEPT !.error = state.error]
          /\ state.error \in {"gateway error", "Failed to switch network"}
    /\ (SettledAs("switchNetwork") /\ last.failedCall = NULL) =>
          /\ Len(last.calls) >= 3
          /\ SubSeq(last.calls, 1, 3) = <<"setNetwork", "isWalletInstalled", "isWalletConnected">>
          /\ state.network = (IF last.read.connected THEN last.read.network ELSE NULL)
          /\ state.isWrongNetwork =
                (last.read.connected /\ last.read.network # RequiredPassphrase)

\* a switchNetwork whose setNetwork succeeded has just ended with the wallet
\* reporting another network, and the snapshot says wrong network
C14_Witness ==
    /\ SettledAs("switchNetwork")
    /\ last.failedCall = NULL
    /\ last.read.connected
    /\ last.read.network = "other-net"
    /\ state.network = "other-net"
    /\ state.isWrongNetwork

\* C15: the mount effect starts one refresh at once and sets the interval;
\* nothing runs before it; each firing of the interval starts one more
\* refresh and fires only while the interval is set; the cleanup clears the
\* interval for good, leaves the operations in flight as they are, and after
\* it neither the interval nor the effect starts a refresh.
C15_ReconciliationFollowsTheTimer ==
    [][/\ timer = "unset" =>
            /\ tasks = EmptyBag
            /\ ops = 0
            /\ state = InitialState
            /\ ~last'.called \/ last'.by = "effect"
            /\ timer' # "unset" => (timer' = "active" /\ last'.by = "effect")
       /\ last'.by = "effect" =>
            /\ timer = "unset"
            /\ last'.kind = "refresh"
            /\ last'.called
            /\ tasks' = With(Started("refresh", "isWalletInstalled"))
            /\ state' = state
       /\ last'.by = "interval" =>
            /\ timer = "active"
            /\ timer' = "active"
            /\ last'.kind = "refresh"
            /\ last'.called
            /\ tasks' = With(Started("refresh", "isWalletInstalled"))
            /\ state' = state
       /\ (timer = "active" /\ timer' = "cleared") =>
            /\ tasks' = tasks
            /\ state' = state
       /\ timer = "cleared" =>
            /\ timer' = "cleared"
            /\ ~last'.called
            /\ BagCardinality(tasks') <= BagCardinality(tasks)
      ]_vars

\* the interval has been cleared and a refresh that was in flight then has
\* just run to its end and written the snapshot
C15_Witness ==
    /\ timer = "cleared"
    /\ SettledAs("refresh")
    /\ last.failedCall = NULL
    /\ last.read.connected
    /\ state.isConnected

\* C16: a refresh to which the wallet reports not connected has called
\* isWalletInstalled and isWalletConnected and nothing after them, and its
\* update writes isConnected = false, address = null, network = null,
\* isWrongNetwork = false, error = null and isWalletAvailable as
\* isWalletInstalled reported it, leaving isConnecting and isDisconnecting as
\* they were.
C16_RefreshOfDisconnectedWallet ==
    (last.kind \in {"refresh", "connect", "switchNetwork"}
        /\ last.outcome = "resolved" /\ last.failedCall = NULL /\ ~last.read.connected) =>
        /\ Len(last.calls) >= 2
        /\ SubSeq(last.calls, Len(last.calls) - 1, Len(last.calls)) =
              <<"isWalletInstalled", "isWalletConnected">>
        /\ \A i \in 1..Len(last.calls) :
              last.calls[i] \notin {"getAccountAddress", "getNetwork"}
        /\ state = [last.before EXCEPT !.isWalletAvailable = last.read.available,
                                       !.isConnected = FALSE,
                                       !.address = NULL,
                                       !.network = NULL,
                                       !.isWrongNetwork = FALSE,
                                       !.error = NULL]

\* a refresh has just found no wallet installed and none connected, on a
\* snapshot that showed an error
C16_Witness ==
    /\ SettledAs("refresh")
    /\ last.failedCall = NULL
    /\ last.calls = <<"isWalletInstalled", "isWalletConnected">>
    /\ ~last.read.available
    /\ last.before.error # NULL
    /\ state = InitialState

\* C17: signTx makes no update when it rejects on a guard and none when
\* signTransaction resolves: the snapshot is the one from before the step, a
\* non-null error included, and the promise resolves with what
\* signTransaction resolved with.
C17_SignTxLeavesSnapshotAlone ==
    /\ (last.kind = "signTx" /\ last.called) => state = last.before
    /\ (last.kind = "signTx" /\ last.outcome = "rejected"
          /\ last.rejection.condition \in {"NotConnected", "WrongNetwork"}) =>
          state = last.before
    /\ (last.kind = "signTx" /\ last.outcome = "resolved") =>
          /\ state = last.before
          /\ last.result \in Signed
          /\ last.calls = <<"signTransaction">>

\* signTx has just resolved with the signed transaction while the snapshot
\* still shows the error of an earlier operation
C17_Witness ==
    /\ last.kind = "signTx"
    /\ last.outcome = "resolved"
    /\ last.result = "signed-xdr"
    /\ state.error # NULL
    /\ state.isConnected

\* C19 (as claimed): a disconnected snapshot never becomes connected with an
\* address through an operation that asked the wallet isConnected before a
\* disconnect that has since succeeded.
C19_StaleRefreshCannotUndoDisconnect ==
    (last.kind # "none" /\ ~last.before.isConnected
        /\ state.isConnected /\ state.address # NULL) => ~last.preDisc

\* C19 (amended): a disconnected snapshot becomes connected only in the step
\* in which a refresh, run alone or as a step of connect or switchNetwork,
\* runs to its end having been told connected by the wallet, and it then shows
\* the address that refresh was given; whether the refresh asked before or
\* after a disconnect succeeded makes no difference to its update.
C19_OnlyARefreshToldConnectedConnects ==
    [][(~state.isConnected /\ state'.isConnected) =>
          /\ last'.kind \in {"refresh", "connect", "switchNetwork"}
          /\ last'.outcome = "resolved"
          /\ last'.failedCall = NULL
          /\ last'.read.connected
          /\ last'.before = state
          /\ state' = RefreshSuccessUpdate(state, last'.read.available, TRUE,
                                           last'.read.address, last'.read.network)
      ]_vars

\* a refresh that asked the wallet before a disconnect succeeded has just
\* written the reset snapshot back to connected
C19_Witness ==
    /\ SettledAs("refresh")
    /\ last.preDisc
    /\ last.read.connected
    /\ last.before = [InitialState EXCEPT !.isWalletAvailable = last.before.isWalletAvailable]
    /\ state.isConnected
    /\ state.address = "G123"

\* no disconnect is in flight
NoDisconnectInFlight ==
    \A task \in InFlight : task.kind # "disconnect"

\* C20: in every reachable state in which no disconnect is in flight,
\* isDisconnecting is false.
C20_DisconnectingOnlyWhileDisconnectInFlight ==
    NoDisconnectInFlight => ~state.isDisconnecting

\* a disconnect has just failed while another operation is still in flight,
\* and the flag is down
C20_Witness ==
    /\ SettledAs("disconnect")
    /\ last.failedCall = "disconnectWallet"
    /\ last.before.isDisconnecting
    /\ NoDisconnectInFlight
    /\ BagCardinality(tasks) >= 1
    /\ ~state.isDisconnecting

\* the snapshot shows the wallet as it is
Converged ==
    /\ state.isWalletAvailable = gateway.installed
    /\ state.isConnected = gateway.connected
    /\ state.address = (IF gateway.connected THEN gateway.address ELSE NULL)
    /\ state.network = (IF gateway.connected THEN gateway.network ELSE NULL)
    /\ state.isWrongNetwork =
          (gateway.connected /\ gateway.network # RequiredPassphrase)
    /\ state.error = NULL

\* a step in which the wallet's state stays as it is, no wallet-service call
\* throws or reports failure, and no operation is called except by the
\* interval
Quiet ==
    /\ gateway' = gateway
    /\ last'.failedCall = NULL
    /\ last'.called => last'.by = "interval"

\* C18: if from some point on every step is quiet, then with the interval
\* firing and calls returning the snapshot eventually shows isWalletAvailable,
\* isConnected, address and network as the wallet has them, isWrongNetwork
\* derived from them and error = null, and shows that from then on.
C18_ReconciliationConverges ==
    (<>[][Quiet]_vars) => <>[]Converged

\* a refresh has just brought a snapshot that was out of date in line with the
\* wallet
C18_Witness ==
    /\ SettledAs("refresh")
    /\ last.before.isConnected # gateway.connected
    /\ last.before.error # NULL
    /\ Converged

====
